---- MODULE Spec2Model ----
(***************************************************************************)
(* Model of the transactions pipeline: importer -> stream "transactions"   *)
(* -> RedisAggregationWorker -> hot store (Redis) -> MongoPersistenceWorker*)
(* -> cold store (MongoDB), and the StatsQueryService read path.           *)
(*                                                                         *)
(* Amounts are integers in thousandths of a unit, so that the two-decimal  *)
(* rounding of the code is a real operation.  Timestamps are integers in   *)
(* ticks; a calendar day holds TicksPerDay ticks.                          *)
(***************************************************************************)
EXTENDS Integers, Sequences, FiniteSets, TLC

(* ------------------------------ bounds -------------------------------- *)
\* stream messages appended in one run
MaxMsgs == 3
\* aggregator crashes / fatal I/O errors in one run
MaxCrashes == 1
\* failing store operations of the archiver in one run
MaxFailures == 1
\* ticks of the clock in one calendar day
TicksPerDay == 2
\* messages one group-read may return (batch_size, scaled down)
BatchSize == 2

\* data rows of a CSV file
MaxRows == 4
\* largest importer concurrency B
MaxB == 2
\* failing stream appends in one importer run
MaxXaddFails == 1

(* ------------------------- program constants -------------------------- *)
\* MongoPersistenceWorker(retention_days=7)
retention_days == 7
\* StatsQueryService(hot_days=7)
hot_days == 7

(* ----------------------------- key contract --------------------------- *)
\* a key is the sequence of its ":"-separated parts
agg_prefix == "agg"
tracked_days_key == <<"system", "tracked_days">>
virtual_clock_key == <<"system", "virtual_clock">>
get_agg_key(day, tx_type) == <<agg_prefix, day, tx_type>>
parse_day_from_key(key) == key[2]

\* the same contract on the characters of the strings
prefix_chars == <<"a", "g", "g">>
\* f"{prefix}:{day}:{tx_type}"
get_agg_key_chars(day, tx_type) == prefix_chars \o <<":">> \o day \o <<":">> \o tx_type

\* str.split(sep): the parts between the separators, in order
RECURSIVE Split(_, _)
Split(str, sep) ==
    IF \A i \in DOMAIN str : str[i] # sep THEN <<str>>
    ELSE LET i == CHOOSE j \in DOMAIN str :
                      str[j] = sep /\ \A k \in 1 .. (j - 1) : str[k] # sep
         IN  <<SubSeq(str, 1, i - 1)>> \o Split(SubSeq(str, i + 1, Len(str)), sep)

\* a parse that takes the first part
parse_day_from_key_chars_First(key) == Split(key, ":")[1]

\* key.split(":")[1]
parse_day_from_key_chars(key) == Split(key, ":")[2]

(* ------------------------------ values -------------------------------- *)
NoClock == -1
NoField == -1
Missing == "missing"
BadValue == -2

At(day, tick) == day * TicksPerDay + tick
DateOf(ts) == ts \div TicksPerDay

\* rows the importer may append; malformed ones carry BadValue / Missing
Row(ts, ty, pm, am) == [timestamp |-> ts, type |-> ty, payment_method |-> pm, amount |-> am]
Catalog ==
    { Row(At(1, 0), "deposit", "card", 1234),
      Row(At(0, 1), "withdrawal", "wire", 2001),
      Row(At(1, 0), "refund", "card", 1234),
      Row(At(8, 0), "deposit", "card", 2001),
      Row(BadValue, "deposit", "card", 1234),
      Row(At(8, 1), Missing, "card", 1234),
      Row(At(8, 1), "deposit", "card", BadValue) }

\* sleep_ms cells of a CSV row, as the strings the file holds; Missing when
\* the line has no value for the column
SleepValues == {"0", "-5", "abc", "", Missing}
\* a CSV data row: dict(zip(header, values)), sleep_ms beside the record fields
ImportRow(sleep, r) == [sleep_ms |-> sleep] @@ r
CsvCatalog == { ImportRow(s, Row(At(1, 0), "deposit", "card", 1234)) : s \in SleepValues }

\* sequences over S of length at most n
SeqsUpTo(S, n) == UNION { [1 .. k -> S] : k \in 0 .. n }

\* a row with every field present, an ISO timestamp and a numeric amount
WellFormed(p) ==
    p.timestamp # BadValue /\ p.type # Missing /\ p.payment_method # Missing
    /\ p.amount # BadValue

Days == { DateOf(r.timestamp) : r \in { c \in Catalog : WellFormed(c) } }
TypeNames == { r.type : r \in { c \in Catalog : WellFormed(c) } }
Methods == { r.payment_method : r \in { c \in Catalog : WellFormed(c) } }
HotKeys == { get_agg_key(d, t) : d \in Days, t \in TypeNames }
EmptyHash == [m \in Methods |-> NoField]
IsEmpty(h) == \A m \in Methods : h[m] = NoField
\* HGETALL: an absent key reads as the empty hash
HGetAll(h, key) == IF key \in DOMAIN h THEN h[key] ELSE EmptyHash
\* no document for a day
NoDoc == [exists |-> FALSE, deposits |-> EmptyHash, withdrawals |-> EmptyHash]

\* no request is being answered
NoResponse == [status |-> 0, detail |-> "", data |-> <<>>]

VARIABLES
    stream,         \* the stream "transactions": sequence of rows, id = index
    groupExists,    \* consumer group "aggregators" created
    lastDelivered,  \* last-delivered id of the group
    pending,        \* pending entries list of the group (delivered, not acked)
    hot,            \* hot hashes: key -> (method -> sum)
    tracked,        \* set system:tracked_days
    clock,          \* string system:virtual_clock, or NoClock
    cold,           \* cold documents: day -> document or NoDoc
    aggPc,          \* aggregator: "down", "poll", "exec"
    localClock,     \* RedisAggregationWorker.local_virtual_clock
    batch,          \* ids of the batch being handled
    pipe,           \* commands queued on the aggregator's pipeline
    crashes,        \* aggregator stops so far
    arPc,           \* archiver: "sleep", "tracked", "loop", "fetched", "upserted"
    arBoundary,     \* boundary_date of the running cycle
    arTodo,         \* days of the cycle's snapshot still to visit
    arDay,          \* day of the running per-day procedure
    arDep,          \* deposits fetched for arDay
    arWit,          \* withdrawals fetched for arDay
    failures,       \* failed archiver store operations so far
    arQuiet,        \* observation: no message was applied since the cycle began
    qReq,           \* GET /stats request being answered: <<from_date, to_date>>
    qRes,           \* its response
    file,           \* data rows of the CSV file (after the header, blank lines
                    \* dropped), in file order
    readRows,       \* rows the producer has read from the file
    batch_size,     \* CsvTransactionImporter.batch_size (B)
    produced,       \* rows the producer has read and enqueued
    queue,          \* CsvTransactionImporter._queue: line numbers of the queued rows
    unfinished,     \* unfinished-task counter of the queue (put: +1, task_done: -1)
    wPc,            \* worker -> "get", "sleep", "xadd", "cancelled"
    wRow,           \* worker -> line number of the row it holds, 0 for none
    impPc,          \* run(): "new", "producer", "join", "finished", "cancelled"
    xaddFails,      \* failed stream appends so far
    sent,           \* observation: line numbers appended to the stream, in order
    lifePc,         \* lifespan: "serving", "gather", "closed"
    cancelReq,      \* tasks with a cancellation requested and not yet delivered
    clientsOpen,    \* the store clients have not been closed
    kArgs,          \* key contract under test: <<day, tx_type>> as strings
    kKey,           \* the key get_agg_key made of kArgs, <<>> before
    kDay,           \* the day parse_day_from_key read back from kKey, <<>> before
    redis_data,     \* get_range under test: the result of the hot read
    mongo_data,     \* get_range under test: the result of the cold read
    result          \* get_range under test: <<>> before the merge, <<result>> after

streamVars == <<stream, groupExists, lastDelivered, pending>>
hotVars == <<hot, tracked, clock>>
aggVars == <<aggPc, localClock, batch, pipe, crashes>>
arVars == <<arPc, arBoundary, arTodo, arDay, arDep, arWit, failures, arQuiet>>
qVars == <<qReq, qRes>>
impVars == <<file, readRows, batch_size, produced, queue, unfinished, wPc, wRow, impPc, xaddFails, sent>>
lifeVars == <<lifePc, cancelReq, clientsOpen>>
keyVars == <<kArgs, kKey, kDay>>
mergeVars == <<redis_data, mongo_data, result>>
auxVars == <<impVars, lifeVars, keyVars, mergeVars>>
vars == <<stream, groupExists, lastDelivered, pending, hot, tracked, clock, cold,
          aggPc, localClock, batch, pipe, crashes,
          arPc, arBoundary, arTodo, arDay, arDep, arWit, failures, arQuiet,
          qReq, qRes,
          file, readRows, batch_size, produced, queue, unfinished, wPc, wRow, impPc, xaddFails, sent,
          lifePc, cancelReq, clientsOpen, kArgs, kKey, kDay,
          redis_data, mongo_data, result>>

\* the pipeline after construction, on a stream that holds st: empty stores, no
\* group, no worker started
InitPipeline_With(st) ==
    /\ stream = st
    /\ groupExists = FALSE
    /\ lastDelivered = 0
    /\ pending = {}
    /\ hot = [k \in HotKeys |-> EmptyHash]
    /\ tracked = {}
    /\ clock = NoClock
    /\ cold = [d \in Days |-> NoDoc]
    /\ aggPc = "down"
    /\ localClock = NoClock
    /\ batch = <<>>
    /\ pipe = <<>>
    /\ crashes = 0
    /\ arPc = "sleep"
    /\ arBoundary = 0
    /\ arTodo = {}
    /\ arDay = 0
    /\ arDep = EmptyHash
    /\ arWit = EmptyHash
    /\ failures = 0
    /\ arQuiet = TRUE
    /\ qReq = <<>>
    /\ qRes = NoResponse

InitPipeline == InitPipeline_With(<<>>)

\* CsvTransactionImporter(file_path, redis, batch_size): the queue is empty and
\* no worker task exists before run()
InitImporter(f, b) ==
    /\ file = f
    /\ readRows = 0
    /\ batch_size = b
    /\ produced = 0
    /\ queue = <<>>
    /\ unfinished = 0
    /\ wPc = <<>>
    /\ wRow = <<>>
    /\ impPc = "new"
    /\ xaddFails = 0
    /\ sent = <<>>

\* the application is serving: tasks created, clients open
InitLifespan ==
    /\ lifePc = "serving"
    /\ cancelReq = {}
    /\ clientsOpen = TRUE

\* no key has been built
InitKeys(args) ==
    /\ kArgs = args
    /\ kKey = <<>>
    /\ kDay = <<>>

NoArgs == <<<<>>, <<>>>>

\* no read has been made
InitMerge(r, m) ==
    /\ redis_data = r
    /\ mongo_data = m
    /\ result = <<>>

Init ==
    /\ InitPipeline
    /\ InitImporter(<<>>, 1)
    /\ InitLifespan
    /\ InitKeys(NoArgs)
    /\ InitMerge(<<>>, <<>>)

(* ------------------------------ importer ------------------------------ *)
\* a worker appends one row to the stream
Xadd(row) ==
    /\ Len(stream) < MaxMsgs
    /\ stream' = Append(stream, row)
    /\ UNCHANGED <<auxVars, qVars, groupExists, lastDelivered, pending, hotVars, cold, aggVars, arVars>>

\* everything but the stream and the importer
restVars == <<groupExists, lastDelivered, pending, hotVars, cold, aggVars, arVars, qVars,
              lifeVars, keyVars, mergeVars>>

\* int(row["sleep_ms"]) succeeds: an optionally signed decimal numeral
ParsesAsInt(v) == v \in {"0", "-5"}

Workers == DOMAIN wPc

\* run(): the B worker tasks are created and the producer begins
ImpRun ==
    /\ impPc = "new"
    /\ wPc' = [w \in 1 .. batch_size |-> "get"]
    /\ wRow' = [w \in 1 .. batch_size |-> 0]
    /\ impPc' = "producer"
    /\ UNCHANGED <<stream, restVars, file, readRows, batch_size, produced, queue, unfinished,
                   xaddFails, sent>>

\* a queue whose put never waits
QueueFull_Never(q, b) == FALSE

\* Queue(maxsize=batch_size * 2).full()
QueueFull(q, b) == Len(q) >= b * 2

\* _producer: the next data row is read from the file
ProducerRead ==
    /\ impPc = "producer"
    /\ readRows = produced
    /\ readRows < Len(file)
    /\ readRows' = readRows + 1
    /\ UNCHANGED <<stream, restVars, file, batch_size, produced, queue, unfinished,
                   wPc, wRow, impPc, xaddFails, sent>>

\* await self._queue.put(row): waits while the queue is full
ProducerPut ==
    /\ impPc = "producer"
    /\ readRows = produced + 1
    /\ ~QueueFull(queue, batch_size)
    /\ queue' = Append(queue, readRows)
    /\ unfinished' = unfinished + 1
    /\ produced' = produced + 1
    /\ UNCHANGED <<stream, restVars, file, readRows, batch_size, wPc, wRow, impPc,
                   xaddFails, sent>>

\* _producer returns at end of file; run() awaits queue.join()
ProducerEof ==
    /\ impPc = "producer"
    /\ readRows = Len(file)
    /\ produced = readRows
    /\ impPc' = "join"
    /\ UNCHANGED <<stream, restVars, file, readRows, batch_size, produced, queue, unfinished,
                   wPc, wRow, xaddFails, sent>>

\* _worker: a row is taken; _process_row parses sleep_ms and either returns
\* (task_done) or goes to sleep holding the row
WorkerGet(w) ==
    /\ w \in Workers
    /\ wPc[w] = "get"
    /\ queue # <<>>
    /\ queue' = Tail(queue)
    /\ IF ParsesAsInt(file[Head(queue)].sleep_ms)
       THEN /\ wPc' = [wPc EXCEPT ![w] = "sleep"]
            /\ wRow' = [wRow EXCEPT ![w] = Head(queue)]
            /\ UNCHANGED unfinished
       ELSE /\ unfinished' = unfinished - 1
            /\ UNCHANGED <<wPc, wRow>>
    /\ UNCHANGED <<stream, restVars, file, readRows, batch_size, produced, impPc, xaddFails, sent>>

\* asyncio.sleep(sleep_ms / 1000) returns (at once for a delay <= 0) and the
\* append is issued
WorkerWake(w) ==
    /\ w \in Workers
    /\ wPc[w] = "sleep"
    /\ wPc' = [wPc EXCEPT ![w] = "xadd"]
    /\ UNCHANGED <<stream, restVars, file, readRows, batch_size, produced, queue, unfinished,
                   wRow, impPc, xaddFails, sent>>

\* the worker is done with its row: task_done, back to queue.get()
WorkerDone(w) ==
    /\ unfinished' = unfinished - 1
    /\ wPc' = [wPc EXCEPT ![w] = "get"]
    /\ wRow' = [wRow EXCEPT ![w] = 0]

\* redis.xadd("transactions", row) succeeds
WorkerXadd(w) ==
    /\ w \in Workers
    /\ wPc[w] = "xadd"
    /\ stream' = Append(stream, file[wRow[w]])
    /\ sent' = Append(sent, wRow[w])
    /\ WorkerDone(w)
    /\ UNCHANGED <<restVars, file, readRows, batch_size, produced, queue, impPc, xaddFails>>

\* a failed append that ends the worker: the row is never marked done
WorkerXaddFail_Dies(w) ==
    /\ w \in Workers
    /\ wPc[w] = "xadd"
    /\ xaddFails < MaxXaddFails
    /\ xaddFails' = xaddFails + 1
    /\ wPc' = [wPc EXCEPT ![w] = "cancelled"]
    /\ UNCHANGED <<stream, sent, restVars, file, readRows, batch_size, produced, queue, impPc,
                   unfinished, wRow>>

\* redis.xadd raises: logged, the row is dropped
WorkerXaddFail(w) ==
    /\ w \in Workers
    /\ wPc[w] = "xadd"
    /\ xaddFails < MaxXaddFails
    /\ xaddFails' = xaddFails + 1
    /\ WorkerDone(w)
    /\ UNCHANGED <<stream, sent, restVars, file, readRows, batch_size, produced, queue, impPc>>

\* finally: every worker is cancelled; a worker holding a row marks it done
\* on its way out
CancelWorkers ==
    /\ wPc' = [w \in Workers |-> "cancelled"]
    /\ wRow' = [w \in Workers |-> 0]
    /\ unfinished' = unfinished - Cardinality({ w \in Workers : wRow[w] # 0 })

\* queue.join() returns: every enqueued row was marked done; run() cancels
\* the workers and returns
ImpJoin ==
    /\ impPc = "join"
    /\ unfinished = 0
    /\ CancelWorkers
    /\ impPc' = "finished"
    /\ UNCHANGED <<stream, sent, restVars, file, readRows, batch_size, produced, queue, xaddFails>>

(* ---------------------------- key contract ---------------------------- *)
\* get_agg_key is called on the day and the type
BuildKey ==
    /\ kKey = <<>>
    /\ kArgs # NoArgs
    /\ kKey' = get_agg_key_chars(kArgs[1], kArgs[2])
    /\ UNCHANGED <<impVars, lifeVars, mergeVars, kArgs, kDay,
                   streamVars, hotVars, cold, aggVars, arVars, qVars>>

\* parse_day_from_key is called on the key
ParseKey ==
    /\ kKey # <<>>
    /\ kDay = <<>>
    /\ kDay' = parse_day_from_key_chars(kKey)
    /\ UNCHANGED <<impVars, lifeVars, mergeVars, kArgs, kKey,
                   streamVars, hotVars, cold, aggVars, arVars, qVars>>

(* ----------------------------- aggregator ----------------------------- *)
\* the parse at the head of _handle_batch's try block: payload["timestamp"] is
\* an ISO datetime, payload["type"] and payload["payment_method"] exist,
\* float(payload["amount"]) succeeds
ParseOk(p) ==
    /\ p.timestamp # BadValue
    /\ p.type # Missing
    /\ p.payment_method # Missing
    /\ p.amount # BadValue

\* an amount passed on as it was read
Round2_None(a) == a

\* round(float(amount), 2) on thousandths (no catalog amount is a tie)
Round2(a) == ((a + 5) \div 10) * 10

\* the clock test without the comparison: every message sets the clock
AdvancesClock_Always(local, ts) == local = NoClock \/ ts >= 0

\* the clock test of _handle_batch
AdvancesClock(local, ts) == local = NoClock \/ ts > local

Cmd(op, key, field, val) == [op |-> op, key |-> key, field |-> field, val |-> val]
StreamKey == <<"transactions">>
GroupName == "aggregators"

\* a message that advances the in-process clock without the write-through
MessageCmds_NoSet(id, p, local) ==
    <<Cmd("hincrbyfloat", get_agg_key(DateOf(p.timestamp), p.type), p.payment_method,
          Round2(p.amount)),
      Cmd("sadd", tracked_days_key, "", DateOf(p.timestamp)),
      Cmd("xack", StreamKey, GroupName, id)>>

\* the commands one parsed message enqueues, in order
MessageCmds(id, p, local) ==
    LET ts == p.timestamp
        day == DateOf(ts)
        amount == Round2(p.amount)
    IN  <<Cmd("hincrbyfloat", get_agg_key(day, p.type), p.payment_method, amount),
          Cmd("sadd", tracked_days_key, "", day)>>
        \o (IF AdvancesClock(local, ts)
             THEN <<Cmd("set", virtual_clock_key, "", ts)>> ELSE <<>>)
        \o <<Cmd("xack", StreamKey, GroupName, id)>>

\* a loop that acknowledges the message it skips
RECURSIVE HandleMessages_AckOnSkip(_, _, _, _)
HandleMessages_AckOnSkip(st, ids, local, cmds) ==
    IF ids = <<>> THEN [local |-> local, cmds |-> cmds]
    ELSE LET id == Head(ids)
             p == st[id]
         IN  IF ~ParseOk(p)
             THEN HandleMessages_AckOnSkip(st, Tail(ids), local,
                                           cmds \o <<Cmd("xack", StreamKey, GroupName, id)>>)
             ELSE HandleMessages_AckOnSkip(st, Tail(ids),
                                           IF AdvancesClock(local, p.timestamp)
                                           THEN p.timestamp ELSE local,
                                           cmds \o MessageCmds(id, p, local))

\* the loop of _handle_batch over the messages of a response: the local clock
\* and the pipeline after it
RECURSIVE HandleMessages(_, _, _, _)
HandleMessages(st, ids, local, cmds) ==
    IF ids = <<>> THEN [local |-> local, cmds |-> cmds]
    ELSE LET id == Head(ids)
             p == st[id]
         IN  IF ~ParseOk(p)
             THEN HandleMessages(st, Tail(ids), local, cmds)
             ELSE HandleMessages(st, Tail(ids),
                                 IF AdvancesClock(local, p.timestamp)
                                 THEN p.timestamp ELSE local,
                                 cmds \o MessageCmds(id, p, local))

\* HINCRBYFLOAT on one field: an absent field counts from 0
HIncrByFloat(h, key, field, val) ==
    [h EXCEPT ![key][field] = (IF @ = NoField THEN 0 ELSE @) + val]

\* one command applied to the hot store and the pending list
ApplyCmd(s, c) ==
    CASE c.op = "hincrbyfloat" -> [s EXCEPT !.hot = HIncrByFloat(s.hot, c.key, c.field, c.val)]
      [] c.op = "sadd" -> [s EXCEPT !.tracked = @ \cup {c.val}]
      [] c.op = "set" -> [s EXCEPT !.clock = c.val]
      [] c.op = "xack" -> [s EXCEPT !.pending = @ \ {c.val}]

\* pipe.execute(): the queued commands in order, as one MULTI/EXEC
RECURSIVE ExecPipe(_, _)
ExecPipe(s, cmds) ==
    IF cmds = <<>> THEN s ELSE ExecPipe(ApplyCmd(s, Head(cmds)), Tail(cmds))

\* a worker that starts without reading the hot-store clock
StartClock_Unread(c) == NoClock

\* the clock the worker starts from: the hot-store copy
StartClock(c) == c

\* run(): _ensure_group, then the clock is read from the hot store
AggStart ==
    /\ aggPc = "down"
    /\ groupExists' = TRUE
    /\ localClock' = StartClock(clock)
    /\ aggPc' = "poll"
    /\ UNCHANGED <<auxVars, qVars, stream, lastDelivered, pending, hotVars, cold, batch, pipe, crashes, arVars>>

\* ids XREADGROUP ">" delivers: the entries after the group's last-delivered id
NewIds(st, last) ==
    LET hi == IF Len(st) < last + BatchSize THEN Len(st) ELSE last + BatchSize
    IN  [i \in 1 .. (hi - last) |-> last + i]

\* one non-empty group-read and the synchronous part of _handle_batch
AggRead ==
    /\ aggPc = "poll"
    /\ lastDelivered < Len(stream)
    /\ LET ids == NewIds(stream, lastDelivered)
           r == HandleMessages(stream, ids, localClock, <<>>)
       IN  /\ batch' = ids
           /\ pending' = pending \cup { ids[i] : i \in DOMAIN ids }
           /\ lastDelivered' = lastDelivered + Len(ids)
           /\ localClock' = r.local
           /\ pipe' = r.cmds
    /\ aggPc' = "exec"
    /\ UNCHANGED <<auxVars, qVars, stream, groupExists, hotVars, cold, crashes, arVars>>

\* await pipe.execute() succeeds
AggExecute ==
    /\ aggPc = "exec"
    /\ LET s == ExecPipe([hot |-> hot, tracked |-> tracked, clock |-> clock,
                          pending |-> pending], pipe)
       IN  /\ hot' = s.hot
           /\ tracked' = s.tracked
           /\ clock' = s.clock
           /\ pending' = s.pending
    /\ aggPc' = "poll"
    /\ pipe' = <<>>
    /\ batch' = <<>>
    /\ arQuiet' = (arQuiet /\ (arPc = "sleep" \/ pipe = <<>>))
    /\ UNCHANGED <<auxVars, qVars, stream, groupExists, lastDelivered, cold, localClock, crashes,
                   arPc, arBoundary, arTodo, arDay, arDep, arWit, failures>>

\* the worker stops: the process is killed, or a stream read or pipe.execute()
\* raises and run() re-raises.  Nothing queued is applied; in-process state is lost
AggStop ==
    /\ aggPc \in {"poll", "exec"}
    /\ crashes < MaxCrashes
    /\ crashes' = crashes + 1
    /\ aggPc' = "down"
    /\ localClock' = NoClock
    /\ pipe' = <<>>
    /\ batch' = <<>>
    /\ UNCHANGED <<auxVars, qVars, streamVars, hotVars, cold, arVars>>

(* ------------------------------ archiver ------------------------------ *)
\* the local variables of a per-day procedure are dead outside of it
ArIdle(pc) ==
    /\ arPc' = pc
    /\ arQuiet' = (arQuiet \/ pc = "sleep")
    /\ arDay' = 0
    /\ arDep' = EmptyHash
    /\ arWit' = EmptyHash

\* the for loop goes on with the next day of the snapshot, or the cycle ends
ArContinue(todo) ==
    /\ arTodo' = todo
    /\ ArIdle(IF todo = {} THEN "sleep" ELSE "loop")

\* boundary_date = (system_clock - timedelta(days=retention_days)).date()
BoundaryDate(c) == DateOf(c - retention_days * TicksPerDay)

\* the test that makes a tracked day historical
IsHistorical(day, boundary) == day <= boundary

\* a cycle that goes on without a clock
ArchReadClock_NoTest ==
    /\ arPc = "sleep"
    /\ arBoundary' = BoundaryDate(clock)
    /\ arPc' = "tracked"
    /\ UNCHANGED <<auxVars, qVars, streamVars, hotVars, cold, aggVars, arTodo, arDay, arDep, arWit,
                   failures, arQuiet>>

\* _persist_historical_data: the virtual clock is read; unset, the cycle returns
ArchReadClock ==
    /\ arPc = "sleep"
    /\ IF clock = NoClock
       THEN UNCHANGED <<arPc, arBoundary>>
       ELSE /\ arBoundary' = BoundaryDate(clock)
            /\ arPc' = "tracked"
    /\ UNCHANGED <<auxVars, qVars, streamVars, hotVars, cold, aggVars, arTodo, arDay, arDep, arWit,
                   failures, arQuiet>>

\* SMEMBERS system:tracked_days; the loop visits the historical days of the snapshot
ArchReadTracked ==
    /\ arPc = "tracked"
    /\ ArContinue({ d \in tracked : IsHistorical(d, arBoundary) })
    /\ UNCHANGED <<auxVars, qVars, streamVars, hotVars, cold, aggVars, arBoundary, failures>>

\* _move_day_to_mongo step 1: both hashes of the day are fetched in one pipeline
ArchFetch(d) ==
    /\ arPc = "loop"
    /\ d \in arTodo
    /\ arTodo' = arTodo \ {d}
    /\ arDay' = d
    /\ arDep' = HGetAll(hot, get_agg_key(d, "deposit"))
    /\ arWit' = HGetAll(hot, get_agg_key(d, "withdrawal"))
    /\ arPc' = "fetched"
    /\ UNCHANGED <<auxVars, qVars, streamVars, hotVars, cold, aggVars, arBoundary, failures, arQuiet>>

\* an empty payload that is upserted all the same
ArchSremEmpty_Upserts ==
    /\ arPc = "fetched"
    /\ IsEmpty(arDep) /\ IsEmpty(arWit)
    /\ cold' = [cold EXCEPT ![arDay].exists = TRUE]
    /\ tracked' = tracked \ {arDay}
    /\ ArContinue(arTodo)
    /\ UNCHANGED <<auxVars, qVars, streamVars, hot, clock, aggVars, arBoundary, failures>>

\* step 2: both empty, the day is only removed from the tracked-days set
ArchSremEmpty ==
    /\ arPc = "fetched"
    /\ IsEmpty(arDep) /\ IsEmpty(arWit)
    /\ tracked' = tracked \ {arDay}
    /\ ArContinue(arTodo)
    /\ UNCHANGED <<auxVars, qVars, streamVars, hot, clock, cold, aggVars, arBoundary, failures>>

\* step 3: the $inc payload, every fetched value rounded to two decimals
UpdatePayload(deposits, withdrawals) ==
    [deposits |-> [m \in Methods |-> IF deposits[m] = NoField THEN NoField
                                     ELSE Round2(deposits[m])],
     withdrawals |-> [m \in Methods |-> IF withdrawals[m] = NoField THEN NoField
                                        ELSE Round2(withdrawals[m])]]

\* $inc of one nested map: an absent field counts from 0
IncFields(old, inc) ==
    [m \in Methods |-> IF inc[m] = NoField THEN old[m]
                       ELSE (IF old[m] = NoField THEN 0 ELSE old[m]) + inc[m]]

\* update_one({"date": day}, {"$inc": payload}, upsert=True)
UpdateOne(c, day, payload) ==
    [c EXCEPT ![day] = [exists |-> TRUE,
                        deposits |-> IncFields(@.deposits, payload.deposits),
                        withdrawals |-> IncFields(@.withdrawals, payload.withdrawals)]]

\* step 4: the upsert succeeds
ArchUpsert ==
    /\ arPc = "fetched"
    /\ ~(IsEmpty(arDep) /\ IsEmpty(arWit))
    /\ cold' = UpdateOne(cold, arDay, UpdatePayload(arDep, arWit))
    /\ arPc' = "upserted"
    /\ UNCHANGED <<auxVars, qVars, streamVars, hotVars, aggVars, arBoundary, arTodo, arDay, arDep, arWit,
                   failures, arQuiet>>

\* DEL of both hashes of a day
DeleteKeys(h, day) ==
    [k \in DOMAIN h |-> IF k \in {get_agg_key(day, "deposit"), get_agg_key(day, "withdrawal")}
                        THEN EmptyHash ELSE h[k]]

\* the delete pipeline issued before the upsert has been awaited
ArchDelete_BeforeUpsert ==
    /\ arPc \in {"fetched", "upserted"}
    /\ ~(IsEmpty(arDep) /\ IsEmpty(arWit))
    /\ hot' = DeleteKeys(hot, arDay)
    /\ tracked' = tracked \ {arDay}
    /\ ArContinue(arTodo)
    /\ UNCHANGED <<auxVars, qVars, streamVars, clock, cold, aggVars, arBoundary, failures>>

\* step 5: both hot keys are deleted and the day removed, in one pipeline
ArchDelete ==
    /\ arPc = "upserted"
    /\ hot' = DeleteKeys(hot, arDay)
    /\ tracked' = tracked \ {arDay}
    /\ ArContinue(arTodo)
    /\ UNCHANGED <<auxVars, qVars, streamVars, clock, cold, aggVars, arBoundary, failures>>

\* an error that leaves the loop of run()
ArchFail_Stops ==
    /\ arPc \in {"tracked", "loop", "fetched", "upserted"}
    /\ failures < MaxFailures
    /\ failures' = failures + 1
    /\ arTodo' = {}
    /\ arPc' = "stopped"
    /\ UNCHANGED <<auxVars, qVars, streamVars, hotVars, cold, aggVars, arBoundary,
                   arDay, arDep, arWit, arQuiet>>

\* a store operation of the cycle raises: run() logs, sleeps, and starts over
ArchFail ==
    /\ arPc \in {"tracked", "loop", "fetched", "upserted"}
    /\ failures < MaxFailures
    /\ failures' = failures + 1
    /\ ArContinue({})
    /\ UNCHANGED <<auxVars, qVars, streamVars, hotVars, cold, aggVars, arBoundary>>

(* ---------------------------- query service --------------------------- *)
\* days a request may name, and the wall-clock dates a host may have
QueryDays == Days
WallDays == {8, 20}

\* _date_range: start, start + 1, ... while current <= end
RECURSIVE DateRange(_, _)
DateRange(start, end) ==
    IF start <= end THEN <<start>> \o DateRange(start + 1, end) ELSE <<>>

\* _get_hot_boundary: virtual_today - hot_days; the wall clock when the
\* virtual clock is unset
GetHotBoundary(c, today) ==
    LET virtual_today == IF c = NoClock THEN today ELSE DateOf(c)
    IN  virtual_today - hot_days

\* a partition that sends the boundary day to the cold store
IsHotDay_Strict(d, hot_boundary) == d > hot_boundary

\* the side of the boundary served by the hot store
IsHotDay(d, hot_boundary) == d >= hot_boundary

Elems(seq) == { seq[i] : i \in DOMAIN seq }

\* _read_many_from_redis: both hashes per day, days without data dropped
ReadManyFromRedis(h, days) ==
    LET dep(d) == HGetAll(h, get_agg_key(d, "deposit"))
        wit(d) == HGetAll(h, get_agg_key(d, "withdrawal"))
    IN  [d \in { x \in Elems(days) : ~(IsEmpty(dep(x)) /\ IsEmpty(wit(x))) }
            |-> [deposits |-> dep(d), withdrawals |-> wit(d)]]

\* _read_many_from_mongo: the documents whose date is one of the days
ReadManyFromMongo(c, days) ==
    [d \in { x \in Elems(days) : x \in DOMAIN c /\ c[x].exists }
        |-> [deposits |-> c[d].deposits, withdrawals |-> c[d].withdrawals]]

\* dict.update
Update(a, b) ==
    [d \in DOMAIN a \cup DOMAIN b |-> IF d \in DOMAIN b THEN b[d] ELSE a[d]]

\* result = {}; result.update(redis_data); result.update(mongo_data); a read
\* that is skipped adds nothing
Merge(redis, mongo) == Update(Update(<<>>, redis), mongo)

\* get_range
GetRange(h, c, clk, today, start, end) ==
    LET days == DateRange(start, end)
        hot_boundary == GetHotBoundary(clk, today)
        redis_days == SelectSeq(days, LAMBDA d : IsHotDay(d, hot_boundary))
        mongo_days == SelectSeq(days, LAMBDA d : ~IsHotDay(d, hot_boundary))
    IN  Merge(IF redis_days # <<>> THEN ReadManyFromRedis(h, redis_days) ELSE <<>>,
              IF mongo_days # <<>> THEN ReadManyFromMongo(c, mongo_days) ELSE <<>>)

\* the merge of get_range applied to the two reads
MergeReads ==
    /\ result = <<>>
    /\ result' = <<Merge(redis_data, mongo_data)>>
    /\ UNCHANGED <<impVars, lifeVars, keyVars, redis_data, mongo_data,
                   streamVars, hotVars, cold, aggVars, arVars, qVars>>

\* the service is dropped with its request
MergeReturn ==
    /\ result # <<>>
    /\ redis_data' = <<>>
    /\ mongo_data' = <<>>
    /\ UNCHANGED <<impVars, lifeVars, keyVars, result,
                   streamVars, hotVars, cold, aggVars, arVars, qVars>>

\* a handler without the range test
get_stats_Unchecked(from_date, to_date, today) ==
    [status |-> 200, detail |-> "",
     data |-> GetRange(hot, cold, clock, today, from_date, to_date)]

\* GET /stats: from_date > to_date is a 400, anything else the data of get_range
get_stats(from_date, to_date, today) ==
    IF from_date > to_date
    THEN [status |-> 400, detail |-> "from_date must be <= to_date", data |-> <<>>]
    ELSE [status |-> 200, detail |-> "",
          data |-> GetRange(hot, cold, clock, today, from_date, to_date)]

\* a request is answered
Query(from_date, to_date, today) ==
    /\ qReq = <<>>
    /\ qReq' = <<from_date, to_date>>
    /\ qRes' = get_stats(from_date, to_date, today)
    /\ UNCHANGED <<auxVars, streamVars, hotVars, cold, aggVars, arVars>>

\* the response is sent and the request-scoped service dropped
QueryReturn ==
    /\ qReq # <<>>
    /\ qReq' = <<>>
    /\ qRes' = NoResponse
    /\ UNCHANGED <<auxVars, streamVars, hotVars, cold, aggVars, arVars>>

(* ------------------------------ lifespan ------------------------------ *)
Tasks == {"importer", "aggregator", "persistor"}

\* Task.done(): the coroutine returned, raised, or was cancelled
TaskDone(t) ==
    CASE t = "importer" -> impPc \in {"finished", "cancelled"}
      [] t = "aggregator" -> aggPc = "cancelled" \/ (aggPc = "down" /\ crashes > 0)
      [] t = "persistor" -> arPc = "cancelled"

\* finally: t.cancel() for every task, then gather is awaited; cancel() on a
\* task that is done requests nothing
ShutdownBegin ==
    /\ lifePc = "serving"
    /\ cancelReq' = { t \in Tasks : ~TaskDone(t) }
    /\ lifePc' = "gather"
    /\ UNCHANGED <<impVars, keyVars, mergeVars, clientsOpen,
                   streamVars, hotVars, cold, aggVars, arVars, qVars>>

\* CancelledError reaches run(): re-raised, and the finally cancels every
\* worker (none exists before the first step of run())
ImpCancelled ==
    /\ "importer" \in cancelReq
    /\ cancelReq' = cancelReq \ {"importer"}
    /\ CancelWorkers
    /\ impPc' = "cancelled"
    /\ UNCHANGED <<file, readRows, batch_size, produced, queue, xaddFails, sent,
                   lifePc, clientsOpen, keyVars, mergeVars,
                   streamVars, hotVars, cold, aggVars, arVars, qVars>>

\* CancelledError reaches run() of the aggregator: logged and re-raised.  A
\* pipeline that was being executed has reached the server or has not
AggCancelled ==
    /\ "aggregator" \in cancelReq
    /\ cancelReq' = cancelReq \ {"aggregator"}
    /\ aggPc' = "cancelled"
    /\ localClock' = NoClock
    /\ pipe' = <<>>
    /\ batch' = <<>>
    /\ \/ UNCHANGED <<hotVars, pending>>
       \/ /\ aggPc = "exec"
          /\ LET s == ExecPipe([hot |-> hot, tracked |-> tracked, clock |-> clock,
                                pending |-> pending], pipe)
             IN  /\ hot' = s.hot
                 /\ tracked' = s.tracked
                 /\ clock' = s.clock
                 /\ pending' = s.pending
    /\ UNCHANGED <<impVars, lifePc, clientsOpen, keyVars, mergeVars,
                   stream, groupExists, lastDelivered, cold, crashes, arVars, qVars>>

\* a cancellation caught by the loop's error handler: the next cycle follows
ArchCancelled_Swallowed ==
    /\ "persistor" \in cancelReq
    /\ cancelReq' = cancelReq \ {"persistor"}
    /\ ArContinue({})
    /\ UNCHANGED <<impVars, lifePc, clientsOpen, keyVars, mergeVars,
                   streamVars, hotVars, cold, aggVars, arBoundary, failures, qVars>>

\* CancelledError reaches run() of the archiver, in a cycle or in its sleep:
\* logged and re-raised
ArchCancelled ==
    /\ "persistor" \in cancelReq
    /\ cancelReq' = cancelReq \ {"persistor"}
    /\ arTodo' = {}
    /\ ArIdle("cancelled")
    /\ UNCHANGED <<impVars, lifePc, clientsOpen, keyVars, mergeVars,
                   streamVars, hotVars, cold, aggVars, arBoundary, failures, qVars>>

\* gather returns once every task is done; the clients are closed
CloseClients ==
    /\ lifePc = "gather"
    /\ \A t \in Tasks : TaskDone(t)
    /\ lifePc' = "closed"
    /\ clientsOpen' = FALSE
    /\ UNCHANGED <<impVars, cancelReq, keyVars, mergeVars,
                   streamVars, hotVars, cold, aggVars, arVars, qVars>>

(* ------------------------ observations for the claims ----------------- *)
\* ids acknowledged on the group: delivered and no longer pending
Acked == (1 .. lastDelivered) \ pending

\* valid messages of the stream
ValidIds == { i \in 1 .. Len(stream) : WellFormed(stream[i]) }

\* sum of the rounded amounts of the acknowledged messages of one cell
RECURSIVE SumAmounts(_, _, _, _)
SumAmounts(ids, d, t, m) ==
    IF ids = {} THEN 0
    ELSE LET i == CHOOSE x \in ids : TRUE
             p == stream[i]
             a == IF /\ WellFormed(p) /\ DateOf(p.timestamp) = d
                     /\ p.type = t /\ p.payment_method = m
                  THEN Round2(p.amount) ELSE 0
         IN  a + SumAmounts(ids \ {i}, d, t, m)

FieldValue(h, m) == IF h[m] = NoField THEN 0 ELSE h[m]
HotCell(d, t, m) == FieldValue(HGetAll(hot, get_agg_key(d, t)), m)
ColdCell(d, t, m) ==
    CASE t = "deposit" -> FieldValue(cold[d].deposits, m)
      [] t = "withdrawal" -> FieldValue(cold[d].withdrawals, m)
      [] OTHER -> 0

\* no per-day procedure of the archiver is between its fetch and its last step
NoDayInProgress == arPc \in {"sleep", "tracked", "loop"}

(* ------------------------------- claims ------------------------------- *)
\* C1: in a crash-free and failure-free run, once every valid message is
\* acknowledged and no per-day procedure is in progress, hot cell + cold cell
\* equals the sum of the rounded amounts of the acknowledged messages, for every
\* (day, type, method).
C1_Conservation ==
    (/\ crashes = 0 /\ failures = 0
     /\ ValidIds \subseteq Acked
     /\ NoDayInProgress)
    => \A d \in Days, t \in TypeNames, m \in Methods :
           HotCell(d, t, m) + ColdCell(d, t, m) = SumAmounts(Acked, d, t, m)

\* a request is answered in this step
Answered == qReq = <<>> /\ qReq' # <<>>

\* the day has a non-empty deposit or withdrawal hash in the hot store
HasHotData(d) ==
    ~(IsEmpty(HGetAll(hot, get_agg_key(d, "deposit")))
      /\ IsEmpty(HGetAll(hot, get_agg_key(d, "withdrawal"))))
\* the day has a document in the cold store
HasColdData(d) == d \in DOMAIN cold /\ cold[d].exists

\* C2: a request with from <= to, answered while no aggregator batch and no
\* per-day procedure is in progress, returns an entry for exactly the days of
\* [from, to] that have data in the hot store or in the cold store.
C2_RangeComplete ==
    [][(Answered /\ qReq'[1] <= qReq'[2] /\ aggPc # "exec" /\ NoDayInProgress)
       => (/\ qRes'.status = 200
           /\ DOMAIN qRes'.data
                = { d \in qReq'[1] .. qReq'[2] : HasHotData(d) \/ HasColdData(d) })]_vars

\* the "set" commands of a pipeline, in order
SetValues(cmds) == SelectSeq(cmds, LAMBDA c : c.op = "set")

\* C3: across batches and restarts the hot-store clock never decreases and is
\* never unset again; it changes only to the timestamp of a well-formed
\* message of the batch, and every "set" the aggregator queues carries a
\* timestamp strictly greater than the in-process clock it replaces.
C3_ClockMonotone ==
    [][/\ clock # NoClock => (clock' # NoClock /\ clock' >= clock)
       /\ clock' # clock =>
            \E i \in DOMAIN batch :
                WellFormed(stream[batch[i]]) /\ stream[batch[i]].timestamp = clock'
       /\ (aggPc = "poll" /\ aggPc' = "exec") =>
            LET sets == SetValues(pipe')
            IN  \A i \in DOMAIN sets :
                    IF i = 1 THEN localClock = NoClock \/ sets[i].val > localClock
                    ELSE sets[i].val > sets[i - 1].val]_vars

\* C3 witness: a message was acknowledged, a later batch was lost when the
\* worker stopped, and after the restart an older message was acknowledged
\* while the clock stayed at the first timestamp
C3_Witness ==
    \E i \in Acked \cap ValidIds, k \in pending \cap ValidIds, j \in Acked \cap ValidIds :
        /\ i < k /\ k < j
        /\ stream[i].timestamp > stream[j].timestamp
        /\ clock = stream[i].timestamp

\* C4: the hot-store clock is at or after the timestamp of every acknowledged
\* message.
C4_ClockCoversAcked ==
    \A i \in Acked : clock # NoClock /\ clock >= stream[i].timestamp

\* C4 witness: the worker stopped holding a message newer than the clock, and
\* after the restart acknowledged a message older than the clock
C4_Witness ==
    \E k \in pending \cap ValidIds, j \in Acked \cap ValidIds :
        /\ k < j
        /\ aggPc = "poll"
        /\ stream[k].timestamp > clock
        /\ stream[j].timestamp < clock

\* C5: every tracked day has a non-empty deposit or withdrawal hash.
C5_TrackedHasAggregate == \A d \in tracked : HasHotData(d)

\* no day at or below the retention boundary is left in the hot store
NoHistoricalLeft ==
    \A d \in Days :
        (clock # NoClock /\ d <= DateOf(clock) - retention_days)
        => (d \notin tracked /\ ~HasHotData(d))

\* C6: when a cycle ends without error and the aggregator applied no message
\* during it, no day at or below the retention boundary is tracked or has a
\* deposit or withdrawal hash.
C6_CycleEmptiesHistory ==
    [][(arPc # "sleep" /\ arPc' = "sleep" /\ arQuiet /\ failures' = failures)
       => NoHistoricalLeft']_vars

\* the cold document of the running procedure's day holds at least the
\* fetched values
ColdHoldsFetched ==
    /\ cold[arDay].exists
    /\ \A m \in Methods :
          /\ arDep[m] # NoField =>
                FieldValue(cold[arDay].deposits, m) >= Round2(arDep[m])
                /\ cold[arDay].deposits[m] # NoField
          /\ arWit[m] # NoField =>
                FieldValue(cold[arDay].withdrawals, m) >= Round2(arWit[m])
                /\ cold[arDay].withdrawals[m] # NoField

\* C8: a hot key of a day is deleted, and a day with fetched data leaves the
\* tracked-days set, only in a step of the day's procedure taken after its
\* upsert completed; a failed upsert leaves hot keys, tracked days and the
\* cold store unchanged.
C8_UpsertBeforeDelete ==
    [][/\ \A d \in Days :
            ((HasHotData(d) /\ ~HasHotData(d)')
             \/ (d \in tracked /\ d \notin tracked'
                 /\ ~(IsEmpty(arDep) /\ IsEmpty(arWit))))
            => (arDay = d /\ arPc = "upserted" /\ ColdHoldsFetched)
       /\ (arPc = "fetched" /\ failures' # failures)
            => (hot' = hot /\ tracked' = tracked /\ cold' = cold)]_vars

\* C8 witness: a day was moved: its document exists, its hot keys are gone
\* and it is no longer tracked, after an earlier upsert had failed
C8_Witness ==
    /\ failures > 0
    /\ arPc = "sleep"
    /\ \E d \in Days : cold[d].exists /\ ~HasHotData(d) /\ d \notin tracked

\* C9: once the restarted aggregator has read the stream to its end, no
\* well-formed message is left delivered and unacknowledged.
C9_RedeliveredAfterRestart ==
    (aggPc = "poll" /\ ~ENABLED AggRead) => (pending \cap ValidIds = {})

\* the well-formed ids of a batch, in order
ValidOf(ids) == SelectSeq(ids, LAMBDA i : WellFormed(stream[i]))

\* C10: a batch queues exactly the commands its well-formed messages queue,
\* and the in-process clock moves as they alone move it; when the pipeline
\* executes, every malformed message of the batch stays pending, every
\* well-formed one is acknowledged, the hot store, the tracked days and the
\* clock change as the well-formed ones alone change them, and the aggregator
\* polls again.
C10_MalformedSkipped ==
    [][/\ lastDelivered' # lastDelivered => aggPc' = "exec"
       /\ (aggPc = "poll" /\ aggPc' = "exec") =>
            LET r == HandleMessages(stream, ValidOf(batch'), localClock, <<>>)
            IN  pipe' = r.cmds /\ localClock' = r.local
       /\ (aggPc = "exec" /\ aggPc' = "poll") =>
            LET valid == ValidOf(batch)
                s == ExecPipe([hot |-> hot, tracked |-> tracked, clock |-> clock,
                               pending |-> pending],
                              HandleMessages(stream, valid, clock, <<>>).cmds)
            IN  /\ \A i \in Elems(batch) \ Elems(valid) : i \in pending'
                /\ \A i \in Elems(valid) : i \notin pending'
                /\ hot' = s.hot /\ tracked' = s.tracked /\ clock' = s.clock
                /\ tracked' = tracked \cup { DateOf(stream[i].timestamp) : i \in Elems(valid) }]_vars

\* C10 witness: a batch holding a malformed and a well-formed message was
\* executed: the malformed one is pending, the other acknowledged
C10_Witness ==
    /\ aggPc = "poll"
    /\ crashes = 0
    /\ \E i \in pending \ ValidIds, j \in Acked \cap ValidIds :
          j = i + 1 /\ lastDelivered = j /\ clock = stream[j].timestamp

\* the hot store of the run in which the same messages were aggregated and
\* the archiver never ran
NoArchiveHot ==
    LET ids == SelectSeq([i \in 1 .. Len(stream) |-> i], LAMBDA i : i \in Acked)
    IN  ExecPipe([hot |-> [k \in HotKeys |-> EmptyHash], tracked |-> {},
                  clock |-> NoClock, pending |-> {}],
                 HandleMessages(stream, ids, NoClock, <<>>).cmds).hot

\* the archiver has moved the day: document written, hot keys and entry gone
Moved(d) == HasColdData(d) /\ ~HasHotData(d) /\ d \notin tracked

\* two responses agree on a day
SameEntry(r1, r2, d) ==
    /\ (d \in DOMAIN r1) = (d \in DOMAIN r2)
    /\ (d \in DOMAIN r1) => r1[d] = r2[d]

\* C7: for a day strictly below the hot boundary that the archiver has moved,
\* the response carries the entry it carries in the run where the same
\* messages were aggregated and the archiver never ran.
C7_ArchiveTransparent ==
    [][(Answered /\ qRes'.status = 200 /\ clock # NoClock
        /\ aggPc # "exec" /\ NoDayInProgress)
       => \A d \in qReq'[1] .. qReq'[2] :
             (d < DateOf(clock) - hot_days /\ Moved(d))
             => SameEntry(qRes'.data,
                          GetRange(NoArchiveHot, [x \in Days |-> NoDoc], clock, 0,
                                   qReq'[1], qReq'[2]),
                          d)]_vars

(* --------------------------- lifespan claims -------------------------- *)
\* the task ended by cancellation
TaskCancelled(t) ==
    CASE t = "importer" -> impPc = "cancelled" /\ \A w \in Workers : wPc[w] = "cancelled"
      [] t = "aggregator" -> aggPc = "cancelled"
      [] t = "persistor" -> arPc = "cancelled"

\* C19: shutdown requests the cancellation of every task that is not done;
\* a task that receives its cancellation ends cancelled, the importer with
\* every worker cancelled; the clients are closed only when every task is
\* done and no cancellation is outstanding; a closed application stays as
\* it is.
C19_TasksEndBeforeClose ==
    [][/\ (lifePc = "serving" /\ lifePc' # "serving") =>
            (clientsOpen' /\ cancelReq' = { t \in Tasks : ~TaskDone(t) })
       /\ \A t \in Tasks : (t \in cancelReq /\ t \notin cancelReq') => TaskCancelled(t)'
       /\ (clientsOpen /\ ~clientsOpen') =>
            (cancelReq = {} /\ \A t \in Tasks : TaskDone(t))
       /\ ~clientsOpen => (~clientsOpen' /\ \A t \in Tasks : TaskDone(t)')]_vars

\* C19 witness: the clients are closed after all three tasks were cancelled
\* while at work: the importer with two workers before every row was
\* appended, the aggregator after a batch, the archiver after a cycle began
C19_Witness ==
    /\ ~clientsOpen
    /\ \A t \in Tasks : TaskCancelled(t)
    /\ Cardinality(Workers) = 2
    /\ xaddFails = 0 /\ Len(sent) < Len(file)
    /\ Acked # {}
    /\ arBoundary > 0

(* ----------------------------- key claims ----------------------------- *)
\* C17: the key built from a day D and a type T is the characters 'agg:',
\* D, ':', T, and the day parsed from it is D.
C17_KeyRoundTrip ==
    /\ kKey # <<>> =>
          kKey = <<"a", "g", "g", ":">> \o kArgs[1] \o <<":">> \o kArgs[2]
    /\ kDay # <<>> => kDay = kArgs[1]

\* C17 witness: the day was parsed from the key of a withdrawal
C17_Witness ==
    /\ kDay # <<>>
    /\ Len(kDay) = 10
    /\ kArgs[2][1] = "w"

(* -------------------------- aggregator claims ------------------------- *)
\* an amount in thousandths to the nearest hundredth
ToCents(a) == CHOOSE c \in { 10 * k : k \in 0 .. 400 } : c - 5 < a /\ a < c + 5

\* both records of the stream are applied and acknowledged
BothApplied == Len(stream) = 2 /\ Acked = {1, 2} /\ aggPc = "poll"

\* C16 as stated: after records of one cell with amounts 1.234 and 2.001, the
\* hot cell is 3.24.
C16_TwoRecordsCell ==
    (BothApplied /\ stream[1].amount = 1234 /\ stream[2].amount = 2001)
    => HotCell(1, "deposit", "card") = 3240

\* C16 amended: after two records of one cell the hot cell is the sum of the
\* two amounts, each rounded to two decimals: 3.23 for 1.234 and 2.001.
C16_TwoRecordsRounded ==
    BothApplied =>
        /\ HotCell(1, "deposit", "card")
             = ToCents(stream[1].amount) + ToCents(stream[2].amount)
        /\ (stream[1].amount = 1234 /\ stream[2].amount = 2001)
             => HotCell(1, "deposit", "card") = 3230

\* C16 witness: the records 1.234 and 2.001 were applied, in this order
C16_Witness ==
    /\ BothApplied
    /\ stream[1].amount = 1234 /\ stream[2].amount = 2001
    /\ HotCell(1, "deposit", "card") > 0

\* C23: whenever the aggregator is polling, the hot-store clock equals its
\* in-process clock; the in-process clock takes the hot-store value only at
\* start-up and otherwise moves only to a timestamp of the batch just read;
\* the hot-store clock changes only when the aggregator's pipeline executes.
C23_ClockWriteThrough ==
    [][/\ aggPc' = "poll" => clock' = localClock'
       /\ (aggPc = "down" /\ aggPc' = "poll") => localClock' = clock
       /\ (aggPc = "poll" /\ aggPc' = "exec") =>
            \/ localClock' = localClock
            \/ \E i \in DOMAIN batch' : localClock' = stream[batch'[i]].timestamp
       /\ (aggPc = "exec" /\ aggPc' = "poll") => localClock' = localClock
       /\ clock' # clock => (aggPc = "exec" /\ aggPc' = "poll")]_vars

\* C23 witness: the restarted aggregator is polling after a batch that
\* advanced the clock beyond the value it had read at start-up
C23_Witness ==
    /\ aggPc = "poll" /\ crashes > 0
    /\ clock # NoClock /\ localClock = clock
    /\ \E i \in Acked \cap ValidIds, k \in pending \cap ValidIds, j \in Acked \cap ValidIds :
          /\ i < k /\ k < j
          /\ stream[i].timestamp < stream[j].timestamp
          /\ clock = stream[j].timestamp

(* ---------------------------- query claims ---------------------------- *)
\* C15: a request with from_date > to_date is answered with status 400, the
\* message 'from_date must be <= to_date' and no data; any other request is
\* answered with status 200.
C15_BadRangeRejected ==
    [][Answered =>
         IF qReq'[1] > qReq'[2]
         THEN /\ qRes'.status = 400
              /\ qRes'.detail = "from_date must be <= to_date"
              /\ qRes'.data = <<>>
         ELSE qRes'.status = 200]_vars

\* C15 witness: a request with from_date > to_date was rejected while the
\* stores held data for a day between the two dates
C15_Witness ==
    /\ qReq # <<>>
    /\ qRes.status = 400
    /\ \E d \in qReq[2] .. qReq[1] : HasHotData(d)

HotEntry(d) ==
    [deposits |-> HGetAll(hot, get_agg_key(d, "deposit")),
     withdrawals |-> HGetAll(hot, get_agg_key(d, "withdrawal"))]
ColdEntry(d) == [deposits |-> cold[d].deposits, withdrawals |-> cold[d].withdrawals]

\* the response is the one the claim describes for today's date vt
TierResponse(data, from, to, vt) ==
    \A d \in (from .. to) \cup DOMAIN data :
        IF d >= vt - hot_days
        THEN /\ d \in DOMAIN data <=> (d \in from .. to /\ HasHotData(d))
             /\ d \in DOMAIN data => data[d] = HotEntry(d)
        ELSE /\ d \in DOMAIN data <=> (d \in from .. to /\ HasColdData(d))
             /\ d \in DOMAIN data => data[d] = ColdEntry(d)

\* C22: the response to an accepted request holds, for every day of
\* [from, to] at or after virtual_today - hot_days, the hot store's values
\* when the day has hot data, for every earlier day the cold document's
\* values when it exists, and nothing else; every entry has a non-empty map.
C22_EntriesFromOneTier ==
    [][(Answered /\ qRes'.status = 200) =>
         /\ \A d \in DOMAIN qRes'.data :
               ~(IsEmpty(qRes'.data[d].deposits) /\ IsEmpty(qRes'.data[d].withdrawals))
         /\ IF clock # NoClock
            THEN TierResponse(qRes'.data, qReq'[1], qReq'[2], DateOf(clock))
            ELSE \E today \in WallDays :
                     TierResponse(qRes'.data, qReq'[1], qReq'[2], today)]_vars

\* C22 witness: a response with an entry read from the cold store and an
\* entry read from the hot store
C22_Witness ==
    /\ qReq # <<>> /\ qRes.status = 200 /\ clock # NoClock
    /\ \E d1, d2 \in DOMAIN qRes.data :
          /\ d1 < DateOf(clock) - hot_days /\ HasColdData(d1)
          /\ d2 >= DateOf(clock) - hot_days /\ HasHotData(d2)

(* --------------------------- archiver claims -------------------------- *)
\* C14: while the hot-store clock is unset the archiver stays at the head of
\* its cycle: its state does not change, the cold store does not change, no
\* day leaves the tracked-days set and no hot hash loses its data.
C14_NoClockNoCycle ==
    [][clock = NoClock =>
         /\ arPc = "sleep" /\ arPc' = "sleep"
         /\ arTodo' = arTodo /\ arDay' = arDay /\ arDep' = arDep /\ arWit' = arWit
         /\ cold' = cold
         /\ tracked \subseteq tracked'
         /\ \A d \in Days : HasHotData(d) => HasHotData(d)']_vars

\* C14 witness: the aggregator holds a delivered batch, the clock is not yet
\* set and the archiver is at the head of a cycle
C14_Witness ==
    /\ clock = NoClock
    /\ arPc = "sleep"
    /\ aggPc = "exec" /\ pipe # <<>>

\* C18: a failed store operation ends the cycle and nothing else: the
\* archiver is back at the head of its loop, the stores and the tracked days
\* are as before the failure; the archiver is never out of its loop, and the
\* snapshot of every cycle holds every tracked day at or below its boundary.
C18_FailedCycleRetried ==
    [][/\ failures' # failures =>
            (arPc' = "sleep" /\ hot' = hot /\ tracked' = tracked /\ cold' = cold)
       /\ arPc' \in {"sleep", "tracked", "loop", "fetched", "upserted"}
       /\ (arPc = "tracked" /\ arPc' # "tracked" /\ failures' = failures) =>
            \A d \in tracked : d <= arBoundary => d \in arTodo']_vars

\* C18 witness: after a cycle failed between the upsert and the delete of a
\* day, a later cycle has fetched the same day again
C18_Witness ==
    /\ failures > 0
    /\ arPc = "fetched"
    /\ cold[arDay].exists
    /\ ~(IsEmpty(arDep) /\ IsEmpty(arWit))
    /\ ValidIds \subseteq Acked /\ Len(stream) = 2

\* C21: no value is added to a cold document twice: every cold cell is at
\* most the sum of the rounded amounts of the acknowledged messages of the
\* cell, also after store operations of the archiver have failed.
C21_NoDoubleArchive ==
    \A d \in Days, t \in {"deposit", "withdrawal"}, m \in Methods :
        ColdCell(d, t, m) <= SumAmounts(Acked, d, t, m)

\* the day has a non-empty hot hash of some type
HasAggregate(d) == \E t \in TypeNames : ~IsEmpty(HGetAll(hot, get_agg_key(d, t)))

\* C24: every day that has a non-empty hot aggregate hash is in the
\* tracked-days set, in every state between pipeline executions.
C24_HotDaysTracked == \A d \in Days : HasAggregate(d) => d \in tracked

\* C25: the step that ends a per-day procedure whose fetch found both hashes
\* empty removes the day from the tracked-days set and changes nothing else
\* in the stores; such a procedure never reaches the upsert.
C25_EmptyDayOnlyUntracked ==
    [][(arPc = "fetched" /\ IsEmpty(arDep) /\ IsEmpty(arWit)) =>
         /\ arPc' # "upserted"
         /\ (arPc' # "fetched" /\ failures' = failures) =>
               /\ tracked' = tracked \ {arDay}
               /\ cold' = cold
               /\ hot' = hot]_vars

\* C25 witness: a day at or below the boundary left the tracked-days set
\* with no cold document, while a hot hash of it is not empty
C25_Witness ==
    /\ arPc \in {"sleep", "loop"}
    /\ \E d \in Days :
          /\ d <= arBoundary /\ d \notin tracked
          /\ ~cold[d].exists
          /\ HasHotData(d)

\* C26: no hot hash of a type other than deposit and withdrawal holds data.
C26_OnlyDepositWithdrawal ==
    \A k \in HotKeys : k[3] \notin {"deposit", "withdrawal"} => IsEmpty(hot[k])

(* --------------------------- importer claims -------------------------- *)
\* a sleep_ms cell that is a non-negative integer
NonNegativeInteger(v) == v \in {"0"}

\* line numbers of the rows with a valid sleep_ms
ValidLines == { i \in 1 .. Len(file) : NonNegativeInteger(file[i].sleep_ms) }

\* C11: every row appended to the stream has a non-negative integer sleep_ms,
\* and a finished run has appended every row that has one and whose append
\* did not fail, whatever rows precede it.
C11_InvalidSleepSkipped ==
    /\ \A k \in DOMAIN sent : sent[k] \in ValidLines
    /\ (impPc = "finished" /\ xaddFails = 0) => ValidLines \subseteq Elems(sent)

\* the stream holds the appended rows, each line at most once
SentOnce ==
    /\ stream = [k \in DOMAIN sent |-> file[sent[k]]]
    /\ \A j, k \in DOMAIN sent : sent[j] = sent[k] => j = k

\* run() has returned after the drain
Drained ==
    /\ impPc = "finished"
    /\ readRows = Len(file) /\ produced = Len(file)
    /\ queue = <<>> /\ unfinished = 0
    /\ \A w \in Workers : wPc[w] = "cancelled"

\* C12: the run finishes; it finishes only when every row was read and
\* marked done, with every worker cancelled; the stream then holds each line
\* at most once, and every line with a valid sleep_ms except those whose
\* append failed.
C12_RunTerminates ==
    /\ <>(impPc = "finished")
    /\ [](impPc = "finished" =>
            /\ Drained
            /\ SentOnce
            /\ Cardinality(ValidLines \ Elems(sent)) <= xaddFails)

\* C12 witness: a run finished after an append failed and a later one
\* succeeded
C12_Witness ==
    /\ impPc = "finished"
    /\ xaddFails > 0
    /\ \E k \in DOMAIN sent : \E i \in ValidLines \ Elems(sent) : i < sent[k]

\* rows held by workers, and the row the producer read and has not yet put
HeldByWorkers == Cardinality({ w \in Workers : wRow[w] # 0 })
InHand == readRows - produced
InMemory == Len(queue) + HeldByWorkers + InHand

\* C13 as stated: the queue holds at most 2B rows, the producer holds no row
\* read from the file while the queue is full, and at most 2B + B rows are in
\* memory.
C13_Backpressure ==
    /\ Len(queue) <= 2 * batch_size
    /\ Len(queue) = 2 * batch_size => InHand = 0
    /\ InMemory <= 2 * batch_size + batch_size

\* C13 amended: the queue holds at most 2B rows; the producer holds at most
\* the one row it is putting, and reads the next only after that put
\* returned; at most 2B + B + 1 rows are in memory.
C13_BackpressureOneAhead ==
    /\ Len(queue) <= 2 * batch_size
    /\ InHand \in {0, 1}
    /\ HeldByWorkers <= batch_size
    /\ InMemory <= 2 * batch_size + batch_size + 1

\* C13 witness: the queue is full, every worker holds a row and the producer
\* waits with one more
C13_Witness ==
    /\ impPc = "producer"
    /\ Len(queue) = 2 * batch_size
    /\ HeldByWorkers = batch_size
    /\ InHand = 1

Next ==
    \/ \E row \in Catalog : Xadd(row)
    \/ AggStart
    \/ AggRead
    \/ AggExecute
    \/ AggStop
    \/ ArchReadClock
    \/ ArchReadTracked
    \/ \E d \in Days : ArchFetch(d)
    \/ ArchSremEmpty
    \/ ArchUpsert
    \/ ArchDelete
    \/ ArchFail

Spec == Init /\ [][Next]_vars

\* the pipeline without faults, and requests answered between its steps
NextQuery ==
    \/ \E row \in Catalog : qReq = <<>> /\ Xadd(row)
    \/ qReq = <<>> /\ AggStart
    \/ qReq = <<>> /\ AggRead
    \/ qReq = <<>> /\ AggExecute
    \/ qReq = <<>> /\ ArchReadClock
    \/ qReq = <<>> /\ ArchReadTracked
    \/ \E d \in Days : qReq = <<>> /\ ArchFetch(d)
    \/ qReq = <<>> /\ ArchSremEmpty
    \/ qReq = <<>> /\ ArchUpsert
    \/ qReq = <<>> /\ ArchDelete
    \/ \E f \in QueryDays, t \in QueryDays, today \in WallDays : Query(f, t, today)
    \/ QueryReturn

SpecQuery == Init /\ [][NextQuery]_vars

\* a CSV file whose rows reach every step of the aggregator and the archiver
LifespanFile ==
    << ImportRow("0", Row(At(1, 0), "refund", "card", 1234)),
       ImportRow("0", Row(At(0, 1), "withdrawal", "wire", 2001)),
       ImportRow("0", Row(At(8, 0), "deposit", "card", 2001)) >>

InitServing ==
    /\ InitPipeline
    /\ \E b \in 1 .. MaxB : InitImporter(LifespanFile, b)
    /\ InitLifespan
    /\ InitKeys(NoArgs)
    /\ InitMerge(<<>>, <<>>)

\* the task has not been asked to stop
Live(t) == t \notin cancelReq

\* the three background tasks, and the shutdown of the lifespan
NextLifespan ==
    \/ Live("importer") /\ ImpRun
    \/ Live("importer") /\ ProducerRead
    \/ Live("importer") /\ ProducerPut
    \/ Live("importer") /\ ProducerEof
    \/ \E w \in 1 .. MaxB : Live("importer") /\ WorkerGet(w)
    \/ \E w \in 1 .. MaxB : Live("importer") /\ WorkerWake(w)
    \/ \E w \in 1 .. MaxB : Live("importer") /\ WorkerXadd(w)
    \/ \E w \in 1 .. MaxB : Live("importer") /\ WorkerXaddFail(w)
    \/ Live("importer") /\ ImpJoin
    \/ Live("aggregator") /\ crashes = 0 /\ AggStart
    \/ Live("aggregator") /\ AggRead
    \/ Live("aggregator") /\ AggExecute
    \/ Live("aggregator") /\ AggStop
    \/ Live("persistor") /\ ArchReadClock
    \/ Live("persistor") /\ ArchReadTracked
    \/ \E d \in Days : Live("persistor") /\ ArchFetch(d)
    \/ Live("persistor") /\ ArchSremEmpty
    \/ Live("persistor") /\ ArchUpsert
    \/ Live("persistor") /\ ArchDelete
    \/ Live("persistor") /\ ArchFail
    \/ ShutdownBegin
    \/ ImpCancelled
    \/ AggCancelled
    \/ ArchCancelled
    \/ CloseClients

SpecLifespan == InitServing /\ [][NextLifespan]_vars

\* day strings YYYY-MM-DD and the two types, as characters
Years == { <<"2", "0", "2", "6">>, <<"1", "9", "9", "9">>, <<"0", "0", "0", "1">> }
Months == { <<"0", "1">>, <<"1", "0">>, <<"1", "2">> }
MonthDays == { <<"0", "1">>, <<"1", "0">>, <<"3", "1">> }
DayStrings == { y \o <<"-">> \o m \o <<"-">> \o d : y \in Years, m \in Months, d \in MonthDays }
TypeStrings == { <<"d", "e", "p", "o", "s", "i", "t">>,
                 <<"w", "i", "t", "h", "d", "r", "a", "w", "a", "l">> }

InitKeyArgs ==
    /\ InitPipeline
    /\ InitImporter(<<>>, 1)
    /\ InitLifespan
    /\ \E d \in DayStrings, t \in TypeStrings : InitKeys(<<d, t>>)
    /\ InitMerge(<<>>, <<>>)

NextKeys ==
    \/ BuildKey
    \/ ParseKey

\* the key contract on every day string and type
SpecKeys == InitKeyArgs /\ [][NextKeys]_vars

\* amounts of two records of one (day, type, method)
Amounts == {1234, 2001, 1236, 1999, 4, 2500}
TwoRecords(a, b) ==
    <<Row(At(1, 0), "deposit", "card", a), Row(At(1, 1), "deposit", "card", b)>>

InitTwoRecords ==
    /\ \E a \in Amounts, b \in Amounts : InitPipeline_With(TwoRecords(a, b))
    /\ InitImporter(<<>>, 1)
    /\ InitLifespan
    /\ InitKeys(NoArgs)
    /\ InitMerge(<<>>, <<>>)

NextTwoRecords ==
    \/ AggStart
    \/ AggRead
    \/ AggExecute

\* the aggregator on a stream that holds two records of one cell
SpecTwoRecords == InitTwoRecords /\ [][NextTwoRecords]_vars

\* entries a read may return for a day, and the reads of a two-day range
ReadEntries ==
    { [deposits |-> [EmptyHash EXCEPT !["card"] = a], withdrawals |-> EmptyHash] :
        a \in {1230, 2000} }
ReadDays == {0, 1}
Reads == UNION { [S -> ReadEntries] : S \in SUBSET ReadDays }

InitReads ==
    /\ InitPipeline
    /\ InitImporter(<<>>, 1)
    /\ InitLifespan
    /\ InitKeys(NoArgs)
    /\ \E r \in Reads, m \in Reads : InitMerge(r, m)

NextMerge ==
    \/ MergeReads
    \/ MergeReturn

\* the merge of get_range on every pair of reads
SpecMerge == InitReads /\ [][NextMerge]_vars

\* CSV files and concurrencies of an importer run
Files == SeqsUpTo(CsvCatalog, MaxRows)

InitImport ==
    /\ InitPipeline
    /\ \E f \in Files, b \in 1 .. MaxB : InitImporter(f, b)
    /\ InitLifespan
    /\ InitKeys(NoArgs)
    /\ InitMerge(<<>>, <<>>)

\* an importer run that is not cancelled
NextImport ==
    \/ ImpRun
    \/ ProducerRead
    \/ ProducerPut
    \/ ProducerEof
    \/ \E w \in 1 .. MaxB : WorkerGet(w)
    \/ \E w \in 1 .. MaxB : WorkerWake(w)
    \/ \E w \in 1 .. MaxB : WorkerXadd(w)
    \/ \E w \in 1 .. MaxB : WorkerXaddFail(w)
    \/ ImpJoin

\* every task of the event loop is scheduled again and again; a sleep ends
\* and an append returns or raises
FairImport ==
    /\ WF_vars(ImpRun) /\ WF_vars(ProducerRead) /\ WF_vars(ProducerPut) /\ WF_vars(ProducerEof) /\ WF_vars(ImpJoin)
    /\ \A w \in 1 .. MaxB :
          /\ WF_vars(WorkerGet(w)) /\ WF_vars(WorkerWake(w))
          /\ WF_vars(WorkerXadd(w) \/ WorkerXaddFail(w))

SpecImport == InitImport /\ [][NextImport]_vars /\ FairImport

====
